---- MODULE Spec2Model ----
(***************************************************************************)
(* Model of the ncast header (include/ncast/ncast.h): numeric_cast,        *)
(* NUMERIC_CAST, char_cast and CHAR_CAST, with the two validation paths    *)
(* (C++11 numeric_cast_validator, C++14 constexpr is_in_range) and the     *)
(* build switches that select between them.                                *)
(*                                                                         *)
(* The arithmetic types are scaled down: the char types have CharBits      *)
(* bits, int/unsigned have CharBits+2 and long long/unsigned long long     *)
(* have CharBits+4.  float has fewer significand digits than int has value *)
(* bits (as 24 < 31), double holds every int but not every long long (as   *)
(* 32 <= 53 < 63), and long double either holds every unsigned long long   *)
(* (x87 extended, 64 digits) or is the same format as double (builds where *)
(* long double is binary64).  Finite floating values are exact multiples   *)
(* of 1/Unit and are stored as a sign and a magnitude counted in units.    *)
(*                                                                         *)
(* Three specifications share the initial state: Spec (one call, or a call *)
(* on the result of a first one), SpecException (cast_exception built and  *)
(* read on its own) and SpecThreads (calls of several threads executed     *)
(* step by step in every interleaving).                                    *)
(***************************************************************************)
EXTENDS Integers, Naturals, Sequences, FiniteSets, TLC

CharBits == 2
FracBits == 3
MaxLine == 1
NumThreads == 2

IntBits == CharBits + 2
LLBits == CharBits + 4
Unit == 2 ^ FracBits

CharTypes == {"char", "schar", "uchar"}
IntTypes == CharTypes \cup {"int", "uint", "llong", "ullong"}
FloatTypes == {"float", "double", "ldouble"}
ArithTypes == IntTypes \cup FloatTypes

VARIABLES build, call, result, inner, exception, observed, threads, streams
exc_vars == <<exception, observed>>
thread_vars == <<threads, streams>>
vars == <<build, call, result, inner, exc_vars, thread_vars>>

----------------------------------------------------------------------------
(* Type traits *)

is_floating_point(T) == T \in FloatTypes
is_signed(T) == T \in {"char", "schar", "int", "llong"} \cup FloatTypes
is_unsigned(T) == T \in {"uchar", "uint", "ullong"}
is_char_type(T) == T \in CharTypes
is_numeric_or_char(T) == T \in ArithTypes

Width(T) ==
    CASE T \in CharTypes -> CharBits
      [] T \in {"int", "uint"} -> IntBits
      [] T \in {"llong", "ullong"} -> LLBits

IntMax(T) == IF is_unsigned(T) THEN 2 ^ Width(T) - 1 ELSE 2 ^ (Width(T) - 1) - 1
IntMin(T) == IF is_unsigned(T) THEN 0 ELSE -(2 ^ (Width(T) - 1))

(* Floating formats: magnitudes k * 2^e units with 0 <= k < 2^p and       *)
(* qexp <= e <= ehi.                                                       *)
FloatFormat == [p |-> IntBits - 2, qexp |-> FracBits - 2,
                ehi |-> LLBits + 1 + FracBits - (IntBits - 2)]
DoubleFormat == [p |-> IntBits, qexp |-> 0, ehi |-> LLBits + 2 + FracBits - IntBits]
ExtendedFormat == [p |-> LLBits, qexp |-> 0, ehi |-> 3 + FracBits]

Format(T) ==
    CASE T = "float" -> FloatFormat
      [] T = "double" -> DoubleFormat
      [] T = "ldouble" -> IF build.ldWide THEN ExtendedFormat ELSE DoubleFormat

FmtMax(f) == (2 ^ f.p - 1) * 2 ^ f.ehi

----------------------------------------------------------------------------
(* Values: integers carry their value in n; finite floating values carry  *)
(* a sign and a magnitude in units, so that -0.0 differs from +0.0.        *)

IntV(i) == [cls |-> "int", neg |-> i < 0, n |-> i]
Fin(neg, mag) == [cls |-> "fin", neg |-> neg, n |-> mag]
NaN == [cls |-> "nan", neg |-> FALSE, n |-> 0]
Inf(neg) == [cls |-> "inf", neg |-> neg, n |-> 0]
NoVal == [cls |-> "none", neg |-> FALSE, n |-> 0]

isnan(x) == x.cls = "nan"
isinf(x) == x.cls = "inf"

Huge == 2 ^ (LLBits + FracBits + 6)

(* The real number a non-NaN value stands for, in units. *)
Exact(x) ==
    CASE x.cls = "int" -> x.n * Unit
      [] x.cls = "fin" -> IF x.neg THEN -x.n ELSE x.n
      [] x.cls = "inf" -> IF x.neg THEN -Huge ELSE Huge

(* Built-in comparisons: every comparison with NaN is false, -0 == +0. *)
Lt(a, b) == ~isnan(a) /\ ~isnan(b) /\ Exact(a) < Exact(b)
Gt(a, b) == Lt(b, a)
Le(a, b) == ~isnan(a) /\ ~isnan(b) /\ Exact(a) <= Exact(b)
Ge(a, b) == Le(b, a)
Eq(a, b) == ~isnan(a) /\ ~isnan(b) /\ Exact(a) = Exact(b)

RECURSIVE FloorLog2(_)
FloorLog2(m) == IF m < 2 THEN 0 ELSE 1 + FloorLog2(m \div 2)

Ulp(f, m) ==
    LET e == FloorLog2(m) - f.p + 1
    IN  IF e > f.qexp THEN 2 ^ e ELSE 2 ^ f.qexp

(* Round to nearest, ties to even, onto the grid of format f. *)
RoundMag(f, m) ==
    LET u == Ulp(f, m)
        lo == (m \div u) * u
        r == m - lo
    IN  IF r = 0 THEN m
        ELSE IF 2 * r < u THEN lo
        ELSE IF 2 * r > u THEN lo + u
        ELSE IF (lo \div u) % 2 = 0 THEN lo ELSE lo + u

Round(f, neg, m) ==
    LET r == RoundMag(f, m)
    IN  IF r > FmtMax(f) THEN Inf(neg) ELSE Fin(neg, r)

Abs(i) == IF i < 0 THEN -i ELSE i

(* Truncation toward zero of a finite floating value. *)
Trunc(x) == IF x.neg THEN -(x.n \div Unit) ELSE x.n \div Unit

Wrap(T, i) ==
    LET m == i % (2 ^ Width(T))
    IN  IF is_unsigned(T) \/ m <= IntMax(T) THEN m ELSE m - 2 ^ Width(T)

numeric_limits_max(T) ==
    IF is_floating_point(T) THEN Fin(FALSE, FmtMax(Format(T))) ELSE IntV(IntMax(T))

numeric_limits_lowest(T) ==
    IF is_floating_point(T) THEN Fin(TRUE, FmtMax(Format(T))) ELSE IntV(IntMin(T))

(* static_cast to a floating type that yields +0.0 for either zero. *)
static_cast_float_positive_zero(T, x) ==
    CASE x.cls = "int" -> Round(Format(T), x.n < 0, Abs(x.n) * Unit)
      [] x.cls = "fin" -> Round(Format(T), x.neg /\ x.n # 0, x.n)
      [] OTHER -> x

(* static_cast to a floating type: exact when representable, otherwise    *)
(* the nearest value; a finite value beyond the target's range gives an   *)
(* infinity (IEEE 754 conversion).                                         *)
static_cast_float(T, x) ==
    CASE x.cls = "int" -> Round(Format(T), x.n < 0, Abs(x.n) * Unit)
      [] x.cls = "fin" -> Round(Format(T), x.neg, x.n)
      [] OTHER -> x

(* What a float-to-integer conversion whose truncated value does not fit  *)
(* the target may yield (undefined behaviour): saturation, the "integer   *)
(* indefinite" minimum, zero, or the truncation reduced modulo 2^width.    *)
UndefinedInt(T, x) ==
    {IntV(IntMin(T)), IntV(IntMax(T)), IntV(0)}
        \cup (IF x.cls = "fin" THEN {IntV(Wrap(T, Trunc(x)))} ELSE {})

(* static_cast: the set of values the conversion can produce. *)
static_cast(T, x) ==
    IF is_floating_point(T) THEN {static_cast_float(T, x)}
    ELSE IF x.cls = "int" THEN {IntV(Wrap(T, x.n))}
    ELSE IF x.cls = "fin" /\ Trunc(x) >= IntMin(T) /\ Trunc(x) <= IntMax(T)
         THEN {IntV(Trunc(x))}
    ELSE UndefinedInt(T, x)

(* The values of a type. *)
FiniteMags(f) == {k * 2 ^ e : k \in 0 .. (2 ^ f.p - 1), e \in f.qexp .. f.ehi}

Values(T) ==
    IF is_floating_point(T)
    THEN {Fin(s, m) : s \in BOOLEAN, m \in FiniteMags(Format(T))}
            \cup {NaN, Inf(FALSE), Inf(TRUE)}
    ELSE {IntV(i) : i \in IntMin(T) .. IntMax(T)}

----------------------------------------------------------------------------
(* cast_exception *)

Message(text, args) == [text |-> text, args |-> args]

(* operator<< of a value into the message stream: char types are written  *)
(* as a character, other integers in decimal, floating values with the    *)
(* stream's default formatting.                                            *)
Insert(T, x) ==
    [as |-> IF is_char_type(T) THEN "character"
            ELSE IF is_floating_point(T) THEN "floating" ELSE "decimal",
     v |-> x]

(* format_message that writes the location whenever a file is given. *)
format_message_anyline(message, file, line, function) ==
    <<"Cast error: ", message>>
        \o (IF file # ""
            THEN <<" (File: ", file, ", Line: ", line>>
                    \o (IF function # "" THEN <<", Function: ", function>> ELSE <<>>)
                    \o <<")">>
            ELSE <<>>)

(* format_message that writes the function whether or not one was given. *)
format_message_always_function(message, file, line, function) ==
    <<"Cast error: ", message>>
        \o (IF file # "" /\ line > 0
            THEN <<" (File: ", file, ", Line: ", line, ", Function: ", function, ")">>
            ELSE <<>>)

format_message(message, file, line, function) ==
    <<"Cast error: ", message>>
        \o (IF file # "" /\ line > 0
            THEN <<" (File: ", file, ", Line: ", line>>
                    \o (IF function # "" THEN <<", Function: ", function>> ELSE <<>>)
                    \o <<")">>
            ELSE <<>>)

cast_exception_message(message) ==
    [message |-> message, file |-> "", line |-> 0, function |-> "",
     what |-> format_message(message, "", 0, "")]

cast_exception(message, file, line, function) ==
    [message |-> message, file |-> file, line |-> line, function |-> function,
     what |-> format_message(message, file, line, function)]

NoExc == [message |-> Message("", <<>>), file |-> "", line |-> 0, function |-> "",
          what |-> <<>>]

Returns(v) == [ok |-> TRUE, val |-> v, exc |-> NoExc]
Throws(e) == [ok |-> FALSE, val |-> NoVal, exc |-> e]

NaNText == "Cannot convert NaN to non-floating-point type"
InfText == "Cannot convert infinity to non-floating-point type"
NegText == "Attempt to cast negative value (%1) to unsigned type"
MaxText == "Value (%1) exceeds maximum for target type (%2)"
MinText == "Value (%1) is below minimum for target type (%2)"
RangeText == "Cast validation failed: value is out of range for target type"
ConstexprText == "Compile-time cast validation failed: value is out of range for target type"

ExceedsMaximum(To, From, value, loc) ==
    Throws(cast_exception(
        Message(MaxText, <<Insert(From, value), Insert(To, numeric_limits_max(To))>>),
        loc.file, loc.line, loc.function))

BelowMinimum(To, From, value, loc) ==
    Throws(cast_exception(
        Message(MinText, <<Insert(From, value), Insert(To, numeric_limits_lowest(To))>>),
        loc.file, loc.line, loc.function))

----------------------------------------------------------------------------
(* C++14 path: constexpr_validation::is_in_range.  The result is a set of *)
(* booleans: the float-to-integer branch converts the value to the target *)
(* type inside the check, which is undefined when the truncated value     *)
(* does not fit.                                                           *)

(* is_in_range demanding an exact conversion for floating targets too. *)
is_in_range_exact(To, From, value) ==
    IF is_floating_point(From)
    THEN LET inBounds ==
                 /\ Le(value, static_cast_float(From, numeric_limits_max(To)))
                 /\ Ge(value, static_cast_float(From, numeric_limits_lowest(To)))
         IN  IF ~inBounds THEN {FALSE}
             ELSE {Eq(value, static_cast_float(From, r)) : r \in static_cast(To, value)}
    ELSE IF is_signed(From) /\ is_unsigned(To) /\ value.n < 0 THEN {FALSE}
    ELSE {/\ Le(static_cast_float("ldouble", value),
                static_cast_float("ldouble", numeric_limits_max(To)))
          /\ Ge(static_cast_float("ldouble", value),
                static_cast_float("ldouble", numeric_limits_lowest(To)))}

is_in_range(To, From, value) ==
    IF is_floating_point(From)
    THEN LET inBounds ==
                 /\ Le(value, static_cast_float(From, numeric_limits_max(To)))
                 /\ Ge(value, static_cast_float(From, numeric_limits_lowest(To)))
         IN  IF is_floating_point(To) THEN {inBounds}
             ELSE IF ~inBounds THEN {FALSE}
             ELSE {Eq(value, static_cast_float(From, r)) : r \in static_cast(To, value)}
    ELSE IF is_signed(From) /\ is_unsigned(To) /\ value.n < 0 THEN {FALSE}
    ELSE {/\ Le(static_cast_float("ldouble", value),
                static_cast_float("ldouble", numeric_limits_max(To)))
          /\ Ge(static_cast_float("ldouble", value),
                static_cast_float("ldouble", numeric_limits_lowest(To)))}

numeric_cast_constexpr(To, From, value) ==
    UNION {IF b THEN {Returns(r) : r \in static_cast(To, value)}
           ELSE {Throws(cast_exception_message(Message(ConstexprText, <<>>)))}
           : b \in is_in_range(To, From, value)}

----------------------------------------------------------------------------
(* C++11 path: numeric_cast_validator<ToType, FromType, from-is-float,    *)
(* to-is-float>::validate, one definition per specialization.             *)

(* The smallest positive normal value, std::numeric_limits<T>::min(). *)
numeric_limits_min(T) == Fin(FALSE, 2 ^ (Format(T).qexp + Format(T).p - 1))

(* The float to float validator taking min() for the lower bound. *)
validate_float_float_min(To, From, value, loc) ==
    IF isnan(value) \/ isinf(value)
    THEN {Returns(r) : r \in static_cast(To, value)}
    ELSE IF Gt(value, static_cast_float(From, numeric_limits_max(To)))
    THEN {ExceedsMaximum(To, From, value, loc)}
    ELSE IF Lt(value, static_cast_float(From, numeric_limits_min(To)))
    THEN {BelowMinimum(To, From, value, loc)}
    ELSE {Returns(r) : r \in static_cast(To, value)}

validate_float_float(To, From, value, loc) ==
    IF isnan(value) \/ isinf(value)
    THEN {Returns(r) : r \in static_cast(To, value)}
    ELSE IF Gt(value, static_cast_float(From, numeric_limits_max(To)))
    THEN {ExceedsMaximum(To, From, value, loc)}
    ELSE IF Lt(value, static_cast_float(From, numeric_limits_lowest(To)))
    THEN {BelowMinimum(To, From, value, loc)}
    ELSE {Returns(r) : r \in static_cast(To, value)}

validate_float_int(To, From, value, loc) ==
    IF isnan(value)
    THEN {Throws(cast_exception(Message(NaNText, <<>>), loc.file, loc.line, loc.function))}
    ELSE IF isinf(value)
    THEN {Throws(cast_exception(Message(InfText, <<>>), loc.file, loc.line, loc.function))}
    ELSE IF Gt(value, static_cast_float(From, numeric_limits_max(To)))
    THEN {ExceedsMaximum(To, From, value, loc)}
    ELSE IF Lt(value, static_cast_float(From, numeric_limits_lowest(To)))
    THEN {BelowMinimum(To, From, value, loc)}
    ELSE {Returns(r) : r \in static_cast(To, value)}

(* The integer to float validator taking min() for the lower bound. *)
validate_int_float_min(To, From, value, loc) ==
    LET wideningValue == static_cast_float("ldouble", value)
    IN  IF Gt(wideningValue, static_cast_float("ldouble", numeric_limits_max(To)))
        THEN {ExceedsMaximum(To, From, value, loc)}
        ELSE IF Lt(wideningValue, static_cast_float("ldouble", numeric_limits_min(To)))
        THEN {BelowMinimum(To, From, value, loc)}
        ELSE {Returns(r) : r \in static_cast(To, value)}

validate_int_float(To, From, value, loc) ==
    LET wideningValue == static_cast_float("ldouble", value)
    IN  IF Gt(wideningValue, static_cast_float("ldouble", numeric_limits_max(To)))
        THEN {ExceedsMaximum(To, From, value, loc)}
        ELSE IF Lt(wideningValue, static_cast_float("ldouble", numeric_limits_lowest(To)))
        THEN {BelowMinimum(To, From, value, loc)}
        ELSE {Returns(r) : r \in static_cast(To, value)}

(* The integer to integer validator with the bounds taken as exclusive. *)
validate_int_int_exclusive(To, From, value, loc) ==
    IF is_signed(From) /\ is_unsigned(To) /\ value.n < 0
    THEN {Throws(cast_exception(Message(NegText, <<Insert(From, value)>>),
                                loc.file, loc.line, loc.function))}
    ELSE LET wideningValue == static_cast_float("ldouble", value)
             maxTarget == static_cast_float("ldouble", numeric_limits_max(To))
             minTarget == static_cast_float("ldouble", numeric_limits_lowest(To))
         IN  IF Ge(wideningValue, maxTarget)
             THEN {ExceedsMaximum(To, From, value, loc)}
             ELSE IF Le(wideningValue, minTarget)
             THEN {BelowMinimum(To, From, value, loc)}
             ELSE {Returns(r) : r \in static_cast(To, value)}

validate_int_int(To, From, value, loc) ==
    IF is_signed(From) /\ is_unsigned(To) /\ value.n < 0
    THEN {Throws(cast_exception(Message(NegText, <<Insert(From, value)>>),
                                loc.file, loc.line, loc.function))}
    ELSE LET wideningValue == static_cast_float("ldouble", value)
             maxTarget == static_cast_float("ldouble", numeric_limits_max(To))
             minTarget == static_cast_float("ldouble", numeric_limits_lowest(To))
         IN  IF Gt(wideningValue, maxTarget)
             THEN {ExceedsMaximum(To, From, value, loc)}
             ELSE IF Lt(wideningValue, minTarget)
             THEN {BelowMinimum(To, From, value, loc)}
             ELSE {Returns(r) : r \in static_cast(To, value)}

(* Selection of the specialization by the two is_floating_point flags. *)
numeric_cast_validator(To, From, value, loc) ==
    CASE is_floating_point(From) /\ is_floating_point(To) ->
            validate_float_float(To, From, value, loc)
      [] is_floating_point(From) /\ ~is_floating_point(To) ->
            validate_float_int(To, From, value, loc)
      [] ~is_floating_point(From) /\ is_floating_point(To) ->
            validate_int_float(To, From, value, loc)
      [] ~is_floating_point(From) /\ ~is_floating_point(To) ->
            validate_int_int(To, From, value, loc)

(* numeric_cast_impl that validates whatever the build switch says. *)
numeric_cast_impl_always(enabled, To, From, value, loc) ==
    numeric_cast_validator(To, From, value, loc)

(* numeric_cast_impl; enabled is NCAST_ENABLE_RUNTIME_VALIDATION. *)
numeric_cast_impl(enabled, To, From, value, loc) ==
    IF ~enabled
    THEN {Returns(r) : r \in static_cast(To, value)}
    ELSE numeric_cast_validator(To, From, value, loc)

(* numeric_cast_enhanced (C++14) throwing the exception built from the    *)
(* message alone, as numeric_cast_constexpr does.                         *)
numeric_cast_enhanced_cpp14_unlocated(enabled, To, From, value, loc) ==
    UNION {IF b THEN {Returns(r) : r \in static_cast(To, value)}
           ELSE IF enabled
           THEN {Throws(cast_exception_message(Message(RangeText, <<>>)))}
           ELSE {Returns(r) : r \in static_cast(To, value)}
           : b \in is_in_range(To, From, value)}

(* numeric_cast_enhanced, C++14 definition (NCAST_HAS_CONSTEXPR_VALIDATION). *)
numeric_cast_enhanced_cpp14(enabled, To, From, value, loc) ==
    UNION {IF b THEN {Returns(r) : r \in static_cast(To, value)}
           ELSE IF enabled
           THEN {Throws(cast_exception(Message(RangeText, <<>>),
                                       loc.file, loc.line, loc.function))}
           ELSE {Returns(r) : r \in static_cast(To, value)}
           : b \in is_in_range(To, From, value)}

(* numeric_cast_enhanced (C++11) validating only calls that carry a line. *)
numeric_cast_enhanced_cpp11_located(enabled, To, From, value, loc) ==
    numeric_cast_impl(enabled /\ loc.line > 0, To, From, value, loc)

(* numeric_cast_enhanced, C++11 fallback. *)
numeric_cast_enhanced_cpp11(enabled, To, From, value, loc) ==
    numeric_cast_impl(enabled, To, From, value, loc)

numeric_cast_enhanced(To, From, value, loc) ==
    IF build.cpp14
    THEN numeric_cast_enhanced_cpp14(build.validation, To, From, value, loc)
    ELSE numeric_cast_enhanced_cpp11(build.validation, To, From, value, loc)

(* char_cast_impl that clamps to the target's range instead of            *)
(* reinterpreting.                                                        *)
char_cast_impl_saturating(To, From, value, loc) ==
    {Returns(IntV(IF value.n > IntMax(To) THEN IntMax(To)
                  ELSE IF value.n < IntMin(To) THEN IntMin(To) ELSE value.n))}

(* char_cast_impl that inverts the top bit of the character. *)
char_cast_impl_flipping(To, From, value, loc) ==
    {Returns(IntV(Wrap(To, value.n + 2 ^ (CharBits - 1))))}

(* char_cast_impl that range-checks like numeric_cast. *)
char_cast_impl_validating(To, From, value, loc) ==
    numeric_cast_validator(To, From, value, loc)

char_cast_impl(To, From, value, loc) ==
    {Returns(r) : r \in static_cast(To, value)}

----------------------------------------------------------------------------
(* Call-site locators *)

DefaultLocator == [file |-> "unknown", line |-> 0, function |-> "unknown"]
Files == {"test_ncast_core.cpp"}
Functions == {"MacroExceptionInfo"}
Locators == [file : Files, line : 1 .. MaxLine, function : Functions]

Builds == [cpp14 : BOOLEAN, validation : BOOLEAN, ldWide : BOOLEAN]

Call(op, To, From, value, loc) ==
    [op |-> op, to |-> To, from |-> From, value |-> value, loc |-> loc]

NoCall == Call("none", "int", "int", NoVal, DefaultLocator)

(* A thread of the caller: the call it is executing, the checks of the    *)
(* selected code path still to evaluate, and what the call has done.      *)
Threads == 1 .. NumThreads

IdleThread ==
    [pc |-> "idle", call |-> NoCall, checks |-> <<>>, next |-> 1, failed |-> 0,
     converted |-> FALSE, outcome |-> Returns(NoVal)]

(* What a holder of the exception has read through its accessors. *)
NothingObserved ==
    [ctor |-> "none", read |-> {}, file |-> "", line |-> 0, function |-> "",
     what |-> <<>>]

Init ==
    /\ build \in Builds
    /\ call = NoCall
    /\ result = Returns(NoVal)
    /\ inner = NoCall
    /\ exception = NoExc
    /\ observed = NothingObserved
    /\ threads = [t \in Threads |-> IdleThread]
    /\ streams = [t \in Threads |-> Message("", <<>>)]

(* The library keeps no state from one call to the next, so a behaviour   *)
(* is one expression of the caller: a single call on a fresh argument, or *)
(* a call whose argument is the value a first call returned, as in        *)
(* numeric_cast<S>(numeric_cast<T>(v)); inner then records the first      *)
(* call.                                                                  *)
Fresh == call.op = "none"
Nested(ops) == call.op \in ops /\ inner.op = "none" /\ result.ok

(* numeric_cast<To>(value) *)
numeric_cast ==
    \/ /\ Fresh
       /\ \E To \in ArithTypes, From \in ArithTypes :
            \E value \in Values(From) :
              \E o \in numeric_cast_enhanced(To, From, value, DefaultLocator) :
                  /\ call' = Call("numeric_cast", To, From, value, DefaultLocator)
                  /\ result' = o
                  /\ UNCHANGED <<build, inner, exc_vars, thread_vars>>
    \/ /\ Nested({"numeric_cast"})
       /\ \E o \in numeric_cast_enhanced(call.from, call.to, result.val, DefaultLocator) :
            /\ call' = Call("numeric_cast", call.from, call.to, result.val, DefaultLocator)
            /\ result' = o
            /\ inner' = call
            /\ UNCHANGED <<build, exc_vars, thread_vars>>

(* NUMERIC_CAST(To, value) *)
NUMERIC_CAST ==
    /\ Fresh
    /\ \E To \in ArithTypes, From \in ArithTypes, loc \in Locators :
         \E value \in Values(From) :
           \E o \in numeric_cast_enhanced(To, From, value, loc) :
               /\ call' = Call("NUMERIC_CAST", To, From, value, loc)
               /\ result' = o
               /\ UNCHANGED <<build, inner, exc_vars, thread_vars>>

(* char_cast<To>(value) *)
char_cast ==
    \/ /\ Fresh
       /\ \E To \in CharTypes, From \in CharTypes :
            \E value \in Values(From) :
              \E o \in char_cast_impl(To, From, value, DefaultLocator) :
                  /\ call' = Call("char_cast", To, From, value, DefaultLocator)
                  /\ result' = o
                  /\ UNCHANGED <<build, inner, exc_vars, thread_vars>>
    \/ /\ Nested({"char_cast"})
       /\ \E To \in CharTypes :
            \E o \in char_cast_impl(To, call.to, result.val, DefaultLocator) :
                /\ call' = Call("char_cast", To, call.to, result.val, DefaultLocator)
                /\ result' = o
                /\ inner' = call
                /\ UNCHANGED <<build, exc_vars, thread_vars>>

(* CHAR_CAST(To, value) *)
CHAR_CAST ==
    /\ Fresh
    /\ \E To \in CharTypes, From \in CharTypes, loc \in Locators :
         \E value \in Values(From) :
           \E o \in char_cast_impl(To, From, value, loc) :
               /\ call' = Call("CHAR_CAST", To, From, value, loc)
               /\ result' = o
               /\ UNCHANGED <<build, inner, exc_vars, thread_vars>>

Next == numeric_cast \/ NUMERIC_CAST \/ char_cast \/ CHAR_CAST

Spec == Init /\ [][Next]_vars

TypeOK ==
    /\ build \in Builds
    /\ call.op \in {"none", "numeric_cast", "NUMERIC_CAST", "char_cast", "CHAR_CAST"}
    /\ result.ok \in BOOLEAN

----------------------------------------------------------------------------
(* Vocabulary of the properties *)

IsNumericCall == call.op \in {"numeric_cast", "NUMERIC_CAST"}
IsCharCall == call.op \in {"char_cast", "CHAR_CAST"}
IntToInt == IsNumericCall /\ call.from \in IntTypes /\ call.to \in IntTypes
FloatToFloat == IsNumericCall /\ call.from \in FloatTypes /\ call.to \in FloatTypes
FloatToInt == IsNumericCall /\ call.from \in FloatTypes /\ call.to \in IntTypes
IntToFloat == IsNumericCall /\ call.from \in IntTypes /\ call.to \in FloatTypes

(* The mathematical statement "the integer i is a value of integer type T". *)
Representable(T, i) == IntMin(T) <= i /\ i <= IntMax(T)

HasFraction(x) == x.cls = "fin" /\ x.n % Unit # 0

----------------------------------------------------------------------------
(* C1: with validation enabled, an integer to integer numeric_cast        *)
(* succeeds and returns exactly v if and only if T::min <= v <= T::max;   *)
(* for every other v it throws and returns no value.                      *)
C1_IntToIntIffInRange ==
    (IntToInt /\ build.validation) =>
        /\ result.ok <=> Representable(call.to, call.value.n)
        /\ result.ok => result.val = call.value
        /\ ~result.ok => result.val = NoVal

(* C2: the C++14 path (numeric_cast_enhanced over is_in_range) and the    *)
(* C++11 path (numeric_cast_impl over numeric_cast_validator) give the    *)
(* same outcome: what one path produced, success with that value or       *)
(* failure, the other path produces for the same input.                   *)
C2_PathsAgree ==
    IsNumericCall =>
        /\ \E o \in numeric_cast_enhanced_cpp11(build.validation, call.to, call.from,
                                                call.value, call.loc) :
                o.ok = result.ok /\ o.val = result.val
        /\ \E o \in numeric_cast_enhanced_cpp14(build.validation, call.to, call.from,
                                                call.value, call.loc) :
                o.ok = result.ok /\ o.val = result.val

(* C3: a float to float numeric_cast of NaN, +infinity or -infinity       *)
(* succeeds and gives NaN, +infinity or -infinity of the target type.     *)
C3_SpecialValuesConvert ==
    (FloatToFloat /\ (isnan(call.value) \/ isinf(call.value))) =>
        result.ok /\ result.val = call.value

(* C4: with validation enabled, a float to integer numeric_cast of NaN    *)
(* fails with the NaNToNonFloat message and of an infinity with the       *)
(* InfinityToNonFloat message; no value is returned.                      *)
C4_SpecialValuesToIntFail ==
    (FloatToInt /\ build.validation) =>
        /\ isnan(call.value) =>
              ~result.ok /\ result.val = NoVal /\ result.exc.message.text = NaNText
        /\ isinf(call.value) =>
              ~result.ok /\ result.val = NoVal /\ result.exc.message.text = InfText

(* C5: with validation enabled, a float to integer numeric_cast of a      *)
(* finite v with a non-zero fractional part, T::min <= v <= T::max,       *)
(* succeeds and returns trunc(v).                                         *)
C5_FractionTruncates ==
    (FloatToInt /\ build.validation /\ HasFraction(call.value)
        /\ Exact(IntV(IntMin(call.to))) <= Exact(call.value)
        /\ Exact(call.value) <= Exact(IntV(IntMax(call.to)))) =>
        result.ok /\ result.val = IntV(Trunc(call.value))

(* C6: with validation enabled, whenever a float to integer numeric_cast  *)
(* of a finite v succeeds, trunc(v) is representable in T, and every      *)
(* finite v whose truncation is outside T's range fails.                  *)
C6_FloatToIntRangeSafe ==
    (FloatToInt /\ build.validation /\ call.value.cls = "fin") =>
        /\ result.ok => Representable(call.to, Trunc(call.value))
        /\ ~Representable(call.to, Trunc(call.value)) => ~result.ok

(* C7: with validation enabled, a negative value of a signed integer      *)
(* type cast to an unsigned integer type fails with the NegativeToUnsigned *)
(* message, and no other cast produces that message.                      *)
C7_NegativeToUnsigned ==
    (IsNumericCall /\ build.validation) =>
        /\ (IntToInt /\ is_signed(call.from) /\ is_unsigned(call.to) /\ call.value.n < 0) =>
              ~result.ok /\ result.exc.message.text = NegText
        /\ (~result.ok /\ result.exc.message.text = NegText) =>
              is_signed(call.from) /\ is_unsigned(call.to)

(* C8: char_cast and CHAR_CAST never fail; the result is the value of the *)
(* target char type congruent to v modulo 2^CharBits.                     *)
C8_CharCastReinterprets ==
    IsCharCall =>
        /\ result.ok
        /\ result.val.cls = "int"
        /\ Representable(call.to, result.val.n)
        /\ (result.val.n - call.value.n) % (2 ^ CharBits) = 0

C8_Witness ==
    /\ call.op = "char_cast" /\ call.from = "schar" /\ call.to = "uchar"
    /\ call.value = IntV(-1)
    /\ result.ok /\ result.val = IntV(2 ^ CharBits - 1)

(* C9: with validation disabled, numeric_cast and NUMERIC_CAST never fail *)
(* on either path; the value returned is one static_cast<T>(v) gives,     *)
(* and for integer source and target it is v reduced modulo 2^width.      *)
C9_DisabledNeverFails ==
    (IsNumericCall /\ ~build.validation) =>
        /\ result.ok
        /\ result.val \in static_cast(call.to, call.value)
        /\ IntToInt =>
              /\ Representable(call.to, result.val.n)
              /\ (result.val.n - call.value.n) % (2 ^ Width(call.to)) = 0

C9_Witness ==
    /\ ~build.validation /\ build.cpp14
    /\ call.op = "NUMERIC_CAST" /\ call.from = "int" /\ call.to = "uint"
    /\ call.value = IntV(-1)
    /\ result.ok /\ result.val = IntV(2 ^ IntBits - 1)

(* C10: inclusive bounds.  When T::max (or T::min, lowest for a floating  *)
(* T) is exactly a value of S, for integer to integer, float to float and *)
(* float to integer, numeric_cast of that value succeeds and returns the  *)
(* bound.                                                                 *)
IsBoundOf(T, x) ==
    /\ x.cls \in {"int", "fin"}
    /\ \/ Exact(x) = Exact(numeric_limits_max(T))
       \/ Exact(x) = Exact(numeric_limits_lowest(T))

C10_InclusiveBounds ==
    ((IntToInt \/ FloatToFloat \/ FloatToInt) /\ IsBoundOf(call.to, call.value)) =>
        /\ result.ok
        /\ result.val.cls \in {"int", "fin"}
        /\ Exact(result.val) = Exact(call.value)

C10_Witness ==
    /\ build.validation
    /\ call.op = "numeric_cast" /\ call.from = "double" /\ call.to = "int"
    /\ call.value = Fin(FALSE, IntMax("int") * Unit)
    /\ result.ok /\ result.val = IntV(IntMax("int"))

----------------------------------------------------------------------------
IsNestedCall == call.op # "none" /\ inner.op # "none"

(* C11: integer round trip.  For integer types S and T and a value v of S *)
(* with T::min <= v <= T::max, numeric_cast<T>(v) succeeds and returns v, *)
(* and numeric_cast<S> of that result succeeds and returns v again.       *)
C11_IntRoundTrip ==
    /\ (IntToInt /\ Representable(call.to, call.value.n)) =>
          result.ok /\ result.val = call.value
    /\ (IsNestedCall /\ IntToInt /\ call.to = inner.from
            /\ Representable(inner.to, inner.value.n)) =>
          result.ok /\ result.val = inner.value

C11_Witness ==
    /\ build.validation
    /\ IsNestedCall /\ call.op = "numeric_cast"
    /\ inner.from = "int" /\ inner.to = "char" /\ inner.value = IntV(IntMin("char"))
    /\ call.from = "char" /\ call.to = "int"
    /\ result.ok /\ result.val = IntV(IntMin("char"))

(* C12: char_cast round trip.  For char types S, T and every value v of   *)
(* S, char_cast<S>(char_cast<T>(v)) succeeds and equals v.                *)
C12_CharRoundTrip ==
    (IsNestedCall /\ IsCharCall /\ call.to = inner.from) =>
        result.ok /\ result.val = inner.value

C12_Witness ==
    /\ IsNestedCall /\ call.op = "char_cast"
    /\ inner.from = "uchar" /\ inner.to = "schar"
    /\ inner.value = IntV(2 ^ CharBits - 1)
    /\ call.value = IntV(-1) /\ call.to = "uchar"
    /\ result.ok /\ result.val = IntV(2 ^ CharBits - 1)

(* C13: char_cast idempotence.  For every char type T, char_cast<T>       *)
(* applied to the result of char_cast<T>(v) succeeds and returns that     *)
(* result unchanged.                                                      *)
C13_CharIdempotent ==
    (IsNestedCall /\ IsCharCall /\ call.to = inner.to) =>
        result.ok /\ result.val = call.value

C13_Witness ==
    /\ IsNestedCall /\ call.op = "char_cast"
    /\ inner.from = "schar" /\ inner.to = "uchar" /\ inner.value = IntV(-1)
    /\ call.from = "uchar" /\ call.to = "uchar"
    /\ call.value = IntV(2 ^ CharBits - 1)
    /\ result.ok /\ result.val = IntV(2 ^ CharBits - 1)

----------------------------------------------------------------------------
SameOutcome(o) == o.ok = result.ok /\ o.val = result.val

(* C14: the located entry points have the semantics of the plain ones.    *)
(* What NUMERIC_CAST(T, v) produced, success with that value or failure,  *)
(* numeric_cast<T>(v) produces, and what numeric_cast<T>(v) produced      *)
(* NUMERIC_CAST(T, v) produces at every call site; likewise CHAR_CAST and *)
(* char_cast.                                                             *)
C14_LocatedSameSemantics ==
    /\ call.op = "NUMERIC_CAST" =>
          \E o \in numeric_cast_enhanced(call.to, call.from, call.value, DefaultLocator) :
              SameOutcome(o)
    /\ call.op = "numeric_cast" =>
          \A loc \in Locators :
              \E o \in numeric_cast_enhanced(call.to, call.from, call.value, loc) :
                  SameOutcome(o)
    /\ call.op = "CHAR_CAST" =>
          \E o \in char_cast_impl(call.to, call.from, call.value, DefaultLocator) :
              SameOutcome(o)
    /\ call.op = "char_cast" =>
          \A loc \in Locators :
              \E o \in char_cast_impl(call.to, call.from, call.value, loc) :
                  SameOutcome(o)

C14_Witness ==
    /\ build.validation
    /\ call.op = "NUMERIC_CAST" /\ call.from = "int" /\ call.to = "uint"
    /\ call.value = IntV(-1) /\ call.loc.line = MaxLine
    /\ ~result.ok

(* C15: when NUMERIC_CAST(T, v) fails, the exception carries the locator  *)
(* supplied at the call: getFile(), getLine() (> 0) and getFunction()     *)
(* return the supplied file, line and function, and what() contains the   *)
(* file name and the function name.                                       *)
C15_MacroCarriesLocator ==
    (call.op = "NUMERIC_CAST" /\ ~result.ok) =>
        /\ result.exc.file = call.loc.file
        /\ result.exc.line = call.loc.line /\ result.exc.line > 0
        /\ result.exc.function = call.loc.function
        /\ Len(result.exc.what) = 9
        /\ result.exc.what[4] = call.loc.file
        /\ result.exc.what[8] = call.loc.function

C15_Witness ==
    /\ build.cpp14
    /\ call.op = "NUMERIC_CAST" /\ call.from = "int" /\ call.to = "uint"
    /\ call.value = IntV(-1) /\ call.loc.line = 1
    /\ ~result.ok /\ result.exc.line = 1
    /\ result.exc.file = "test_ncast_core.cpp"

(* C16 as stated: when numeric_cast<T>(v) fails, getFile() and            *)
(* getFunction() are empty, getLine() is 0 and what() has no location     *)
(* suffix.                                                                *)
C16_PlainLocatorEmpty ==
    (call.op = "numeric_cast" /\ ~result.ok) =>
        /\ result.exc.file = "" /\ result.exc.function = ""
        /\ result.exc.line = 0
        /\ Len(result.exc.what) = 2

(* C16 amended: when numeric_cast<T>(v) fails, getFile() and              *)
(* getFunction() are the placeholder "unknown", getLine() is 0 and what() *)
(* has no location suffix.                                                *)
C16_PlainLocatorPlaceholder ==
    (call.op = "numeric_cast" /\ ~result.ok) =>
        /\ result.exc.file = "unknown" /\ result.exc.function = "unknown"
        /\ result.exc.line = 0
        /\ Len(result.exc.what) = 2
        /\ result.exc.what[1] = "Cast error: "

C16_Witness ==
    /\ call.op = "numeric_cast" /\ call.from = "int" /\ call.to = "uchar"
    /\ call.value = IntV(2 ^ CharBits)
    /\ ~result.ok /\ result.exc.file = "unknown" /\ Len(result.exc.what) = 2

(* C17: with validation enabled, every range failure names the violated   *)
(* bound: a value above T::max fails with the ExceedsMaximum message      *)
(* carrying v and T::max, a value below T::min (other than a negative     *)
(* signed integer cast to an unsigned type) with the BelowMinimum message *)
(* carrying v and T::min.                                                 *)
C17_RangeFailureNamesBound ==
    (IsNumericCall /\ build.validation /\ ~result.ok
        /\ call.value.cls \in {"int", "fin"}) =>
        /\ Exact(call.value) > Exact(numeric_limits_max(call.to)) =>
              result.exc.message =
                  Message(MaxText, <<Insert(call.from, call.value),
                                     Insert(call.to, numeric_limits_max(call.to))>>)
        /\ (/\ Exact(call.value) < Exact(numeric_limits_lowest(call.to))
            /\ ~(is_signed(call.from) /\ call.from \in IntTypes /\ is_unsigned(call.to))) =>
              result.exc.message =
                  Message(MinText, <<Insert(call.from, call.value),
                                     Insert(call.to, numeric_limits_lowest(call.to))>>)

----------------------------------------------------------------------------
(* Magnitude, in units, of a finite or integer value. *)
Mag(x) == Abs(Exact(x))

(* y is a finite value of floating type T. *)
OnGrid(T, y) ==
    /\ y.cls = "fin"
    /\ y.n <= FmtMax(Format(T))
    /\ y.n % Ulp(Format(T), y.n) = 0

(* y is a value of floating type T nearest to the finite value x: it has  *)
(* the sign of x and lies within half a spacing of T's values around x.   *)
IsNearest(T, x, y) ==
    /\ OnGrid(T, y)
    /\ y.neg = (IF x.cls = "int" THEN x.n < 0 ELSE x.neg)
    /\ 2 * Abs(y.n - Mag(x)) <= Ulp(Format(T), Mag(x))

AboveMax(T, x) == Exact(x) > Exact(numeric_limits_max(T))
BelowLowest(T, x) == Exact(x) < Exact(numeric_limits_lowest(T))

(* C18: with validation enabled, a float to float numeric_cast of a       *)
(* finite v fails if and only if v > T::max or v < T::lowest; otherwise   *)
(* it succeeds and returns v converted to T.                              *)
C18_FloatToFloatRange ==
    (FloatToFloat /\ build.validation /\ call.value.cls = "fin") =>
        /\ ~result.ok <=> (AboveMax(call.to, call.value) \/ BelowLowest(call.to, call.value))
        /\ result.ok => IsNearest(call.to, call.value, result.val)

C18_Witness ==
    /\ build.validation
    /\ call.op = "numeric_cast" /\ call.from = "double" /\ call.to = "float"
    /\ call.value = Fin(TRUE, FmtMax(DoubleFormat))
    /\ ~result.ok /\ result.exc.line = 0

(* C19: only range is validated, never precision.  A finite value inside  *)
(* the target floating type's range that is not a value of that type, of  *)
(* floating or integer source type, converts successfully to a nearest    *)
(* value of the target type.                                              *)
C19_PrecisionNotValidated ==
    ((FloatToFloat \/ IntToFloat) /\ call.value.cls \in {"int", "fin"}
        /\ ~AboveMax(call.to, call.value) /\ ~BelowLowest(call.to, call.value)
        /\ ~OnGrid(call.to, Fin(FALSE, Mag(call.value)))) =>
        /\ result.ok
        /\ IsNearest(call.to, call.value, result.val)
        /\ result.val.n # Mag(call.value)

C19_Witness ==
    /\ build.validation /\ build.cpp14
    /\ call.op = "numeric_cast" /\ call.from = "double" /\ call.to = "float"
    /\ call.value = Fin(FALSE, (2 ^ FloatFormat.p + 1) * Unit)
    /\ result.ok /\ result.val = Fin(FALSE, (2 ^ FloatFormat.p) * Unit)

(* C20: an integer to float numeric_cast fails if and only if v > T::max  *)
(* or v < T::lowest, so it succeeds for every value of every integer      *)
(* type and returns v converted to T.                                     *)
C20_IntToFloat ==
    IntToFloat =>
        /\ ~result.ok <=> (AboveMax(call.to, call.value) \/ BelowLowest(call.to, call.value))
        /\ result.ok
        /\ IsNearest(call.to, call.value, result.val)

C20_Witness ==
    /\ build.validation
    /\ call.op = "numeric_cast" /\ call.from = "llong" /\ call.to = "float"
    /\ call.value = IntV(IntMin("llong"))
    /\ result.ok /\ result.val = Fin(TRUE, 2 ^ (LLBits - 1) * Unit)

----------------------------------------------------------------------------
(* The four specializations of numeric_cast_validator, keyed by the two   *)
(* defaulted template arguments IsFromFloatingPoint, IsToFloatingPoint.   *)
Specializations ==
    {[fromFloat |-> TRUE, toFloat |-> TRUE, name |-> "float_float"],
     [fromFloat |-> TRUE, toFloat |-> FALSE, name |-> "float_int"],
     [fromFloat |-> FALSE, toFloat |-> TRUE, name |-> "int_float"],
     [fromFloat |-> FALSE, toFloat |-> FALSE, name |-> "int_int"]}

(* The specializations that match numeric_cast_validator<To, From>. *)
Selected(To, From) ==
    {s \in Specializations :
        /\ s.fromFloat = is_floating_point(From)
        /\ s.toFloat = is_floating_point(To)}

validate(s, To, From, value, loc) ==
    CASE s.name = "float_float" -> validate_float_float(To, From, value, loc)
      [] s.name = "float_int" -> validate_float_int(To, From, value, loc)
      [] s.name = "int_float" -> validate_int_float(To, From, value, loc)
      [] s.name = "int_int" -> validate_int_int(To, From, value, loc)

(* C21: strategy dispatch is total, exclusive and value-independent.      *)
(* With validation enabled, every numeric_cast or NUMERIC_CAST call is    *)
(* validated by exactly one of the four strategies, the one fixed by      *)
(* whether source and target are floating-point: exactly one              *)
(* specialization matches the type pair, and the call's outcome (success  *)
(* with that value, or failure) is an outcome of that strategy.           *)
C21_DispatchTotalExclusive ==
    (IsNumericCall /\ build.validation) =>
        /\ Cardinality(Selected(call.to, call.from)) = 1
        /\ \A s \in Selected(call.to, call.from) :
              \E o \in validate(s, call.to, call.from, call.value, call.loc) :
                  SameOutcome(o)

----------------------------------------------------------------------------
(* The widened values the integer strategies compare. *)
Widened(x) == static_cast_float("ldouble", x)

(* C23: the widened comparison is exact.  In the integer to integer and   *)
(* integer to float strategies, widened v > widened T::max holds exactly  *)
(* when v > T::max, and widened v < widened T::min exactly when           *)
(* v < T::min, for every value of every integer source type.              *)
C23_WideningExact ==
    ((IntToInt \/ IntToFloat) /\ build.validation) =>
        /\ Gt(Widened(call.value), Widened(numeric_limits_max(call.to)))
              <=> Exact(call.value) > Exact(numeric_limits_max(call.to))
        /\ Lt(Widened(call.value), Widened(numeric_limits_lowest(call.to)))
              <=> Exact(call.value) < Exact(numeric_limits_lowest(call.to))

(* C24: validation never changes the value of an accepted cast.  When a   *)
(* numeric_cast succeeds with validation enabled, the value returned is   *)
(* the value of static_cast<T>(v), which is what the validation-disabled  *)
(* build returns for the same input.                                      *)
C24_AcceptedIsStaticCast ==
    (IsNumericCall /\ build.validation /\ result.ok) =>
        /\ \A r \in static_cast(call.to, call.value) : result.val = r
        /\ \A o \in numeric_cast_impl(FALSE, call.to, call.from, call.value, call.loc) :
              SameOutcome(o)

(* C25: on the char types the validated and the reinterpreting paths      *)
(* agree wherever the validated one accepts.  With validation enabled,    *)
(* for char types S, T and a value v of S: if numeric_cast<T>(v) succeeds *)
(* it equals char_cast<T>(v); it fails exactly when v is not              *)
(* representable in T, which is exactly when char_cast<T>(v) differs      *)
(* numerically from v.                                                    *)
C25_CharPathsAgree ==
    (IsNumericCall /\ build.validation
        /\ is_char_type(call.from) /\ is_char_type(call.to)) =>
        \A c \in char_cast_impl(call.to, call.from, call.value, call.loc) :
            /\ c.ok
            /\ result.ok => result.val = c.val
            /\ ~result.ok <=> ~Representable(call.to, call.value.n)
            /\ ~Representable(call.to, call.value.n) <=> c.val.n # call.value.n

C25_Witness ==
    /\ build.validation
    /\ call.op = "numeric_cast" /\ call.from = "uchar" /\ call.to = "schar"
    /\ call.value = IntV(2 ^ (CharBits - 1))
    /\ ~result.ok

----------------------------------------------------------------------------
IsZero(x) == x.cls = "fin" /\ x.n = 0

C27_SignedZero ==
    /\ (FloatToFloat /\ IsZero(call.value)) =>
          result.ok /\ result.val = Fin(call.value.neg, 0)
    /\ (FloatToInt /\ IsZero(call.value)) =>
          result.ok /\ result.val = IntV(0)

C27_Witness ==
    /\ build.validation
    /\ call.op = "numeric_cast" /\ call.from = "double" /\ call.to = "float"
    /\ call.value = Fin(TRUE, 0)
    /\ result.ok /\ result.val.neg /\ result.val.n = 0

----------------------------------------------------------------------------
(* S has more significand digits than T. *)
Wider(S, T) == Format(S).p > Format(T).p

(* A finite non-zero value below the smallest positive normal value of T. *)
BelowNormal(T, x) ==
    x.cls = "fin" /\ x.n # 0 /\ x.n < numeric_limits_min(T).n

(* C28 as stated: a finite non-zero value of a wider floating type whose  *)
(* magnitude is below the smallest positive normal value of the target    *)
(* type is never rejected; numeric_cast returns static_cast<T>(v), a      *)
(* subnormal or a zero of the same sign.                                  *)
C28_SmallMagnitudesSubnormal ==
    (FloatToFloat /\ Wider(call.from, call.to) /\ BelowNormal(call.to, call.value)) =>
        /\ result.ok
        /\ result.val \in static_cast(call.to, call.value)
        /\ result.val.cls = "fin" /\ result.val.neg = call.value.neg
        /\ result.val.n < numeric_limits_min(call.to).n

(* C28 amended: such a value is never rejected; numeric_cast returns      *)
(* static_cast<T>(v), which has the sign of v and is a zero, a subnormal  *)
(* or, when v rounds up, the smallest positive normal value of T.         *)
C28_SmallMagnitudesAccepted ==
    (FloatToFloat /\ Wider(call.from, call.to) /\ BelowNormal(call.to, call.value)) =>
        /\ result.ok
        /\ result.val \in static_cast(call.to, call.value)
        /\ result.val.cls = "fin" /\ result.val.neg = call.value.neg
        /\ result.val.n <= numeric_limits_min(call.to).n

C28_Witness ==
    /\ build.validation /\ ~build.cpp14
    /\ call.op = "numeric_cast" /\ call.from = "double" /\ call.to = "float"
    /\ call.value = Fin(TRUE, numeric_limits_min("float").n - 1)
    /\ result.ok /\ result.val = Fin(TRUE, numeric_limits_min("float").n)

----------------------------------------------------------------------------
(* cast_exception on its own: the two constructors applied to arbitrary   *)
(* arguments and the accessors called in any order on the object built.   *)

MessageArgs == {Message(NaNText, <<>>), Message("", <<>>)}
FileArgs == Files \cup {"", "unknown"}
LineArgs == -1 .. MaxLine
FunctionArgs == Functions \cup {"", "unknown"}

Constructed == exception # NoExc

(* explicit cast_exception(const std::string& message) *)
cast_exception_explicit ==
    /\ ~Constructed
    /\ \E message \in MessageArgs :
         /\ exception' = cast_exception_message(message)
         /\ observed' = [observed EXCEPT !.ctor = "message"]
    /\ UNCHANGED <<build, call, result, inner, thread_vars>>

(* cast_exception(message, file, line, function) *)
cast_exception_located ==
    /\ ~Constructed
    /\ \E message \in MessageArgs, file \in FileArgs, line \in LineArgs,
          function \in FunctionArgs :
         /\ exception' = cast_exception(message, file, line, function)
         /\ observed' = [observed EXCEPT !.ctor = "located"]
    /\ UNCHANGED <<build, call, result, inner, thread_vars>>

getFile ==
    /\ Constructed /\ "file" \notin observed.read
    /\ observed' = [observed EXCEPT !.read = @ \cup {"file"}, !.file = exception.file]
    /\ UNCHANGED <<build, call, result, inner, exception, thread_vars>>

getLine ==
    /\ Constructed /\ "line" \notin observed.read
    /\ observed' = [observed EXCEPT !.read = @ \cup {"line"}, !.line = exception.line]
    /\ UNCHANGED <<build, call, result, inner, exception, thread_vars>>

getFunction ==
    /\ Constructed /\ "function" \notin observed.read
    /\ observed' = [observed EXCEPT !.read = @ \cup {"function"},
                                    !.function = exception.function]
    /\ UNCHANGED <<build, call, result, inner, exception, thread_vars>>

what ==
    /\ Constructed /\ "what" \notin observed.read
    /\ observed' = [observed EXCEPT !.read = @ \cup {"what"}, !.what = exception.what]
    /\ UNCHANGED <<build, call, result, inner, exception, thread_vars>>

NextException ==
    \/ cast_exception_explicit
    \/ cast_exception_located
    \/ getFile
    \/ getLine
    \/ getFunction
    \/ what

SpecException == Init /\ [][NextException]_vars

HasSuffix(e) == Len(e.what) > 2

(* The text of what(), piece by piece, as the claim gives it. *)
WellFormatted(e) ==
    /\ Len(e.what) >= 2
    /\ e.what[1] = "Cast error: " /\ e.what[2] = e.message
    /\ HasSuffix(e) <=> (e.file # "" /\ e.line > 0)
    /\ HasSuffix(e) =>
          /\ e.what[3] = " (File: " /\ e.what[4] = e.file
          /\ e.what[5] = ", Line: " /\ e.what[6] = e.line
          /\ e.what[Len(e.what)] = ")"
          /\ IF e.function # ""
             THEN /\ Len(e.what) = 9
                  /\ e.what[7] = ", Function: " /\ e.what[8] = e.function
             ELSE Len(e.what) = 7

(* C29: what() is "Cast error: " followed by the message; the suffix      *)
(* " (File: <file>, Line: <line>" is appended if and only if the file is  *)
(* non-empty and the line is greater than 0, ", Function: <function>" is  *)
(* added inside it if and only if the function is non-empty, and the      *)
(* suffix is closed by ")".  An exception built from a message alone has  *)
(* empty file, empty function, line 0 and no suffix.  The fields are      *)
(* fixed at construction: the accessors return them and no step changes   *)
(* the exception once it is built.                                        *)
C29_MessageFormat ==
    /\ [](Constructed =>
            /\ WellFormatted(exception)
            /\ observed.ctor = "message" =>
                  /\ exception.file = "" /\ exception.function = ""
                  /\ exception.line = 0 /\ ~HasSuffix(exception)
            /\ "file" \in observed.read => observed.file = exception.file
            /\ "line" \in observed.read => observed.line = exception.line
            /\ "function" \in observed.read => observed.function = exception.function
            /\ "what" \in observed.read => observed.what = exception.what)
    /\ [][Constructed => exception' = exception]_vars

C29_Witness ==
    /\ Constructed /\ observed.ctor = "located"
    /\ exception.file = "unknown" /\ exception.line = MaxLine
    /\ exception.function = ""
    /\ observed.read = {"file", "line", "function", "what"}
    /\ Len(observed.what) = 7

----------------------------------------------------------------------------
(* Calls issued concurrently by several threads.  A call is executed in   *)
(* the steps the code takes: the checks of the selected code path one by  *)
(* one, then either the message written into the std::ostringstream and   *)
(* the throw, or the conversion and the return.                           *)

(* The checks of numeric_cast_validator<To, From>::validate, in order. *)
Checks11(To, From) ==
    CASE is_floating_point(From) /\ is_floating_point(To) ->
            <<"nan_or_inf", "above_max", "below_lowest">>
      [] is_floating_point(From) /\ ~is_floating_point(To) ->
            <<"nan", "inf", "above_max", "below_lowest">>
      [] ~is_floating_point(From) /\ is_floating_point(To) ->
            <<"above_max_widened", "below_lowest_widened">>
      [] ~is_floating_point(From) /\ ~is_floating_point(To) ->
            <<"negative_to_unsigned", "above_max_widened", "below_lowest_widened">>

(* The operands of is_in_range's conditional expression, in order. *)
Checks14(To, From) ==
    IF is_floating_point(From)
    THEN IF is_floating_point(To) THEN <<"le_max", "ge_lowest">>
         ELSE <<"le_max", "ge_lowest", "round_trip">>
    ELSE <<"not_negative_to_unsigned", "le_max_widened", "ge_lowest_widened">>

Verdict(failed) == IF failed THEN "fail" ELSE "pass"

(* The verdicts one check can give: "fail", "pass", or "accept" for the   *)
(* early return of the float to float strategy.  The round-trip operand   *)
(* converts the value to the target type to evaluate itself.              *)
CheckResult(name, To, From, value) ==
    CASE name = "nan_or_inf" ->
            {IF isnan(value) \/ isinf(value) THEN "accept" ELSE "pass"}
      [] name = "nan" -> {Verdict(isnan(value))}
      [] name = "inf" -> {Verdict(isinf(value))}
      [] name = "above_max" ->
            {Verdict(Gt(value, static_cast_float(From, numeric_limits_max(To))))}
      [] name = "below_lowest" ->
            {Verdict(Lt(value, static_cast_float(From, numeric_limits_lowest(To))))}
      [] name = "above_max_widened" ->
            {Verdict(Gt(Widened(value), Widened(numeric_limits_max(To))))}
      [] name = "below_lowest_widened" ->
            {Verdict(Lt(Widened(value), Widened(numeric_limits_lowest(To))))}
      [] name \in {"negative_to_unsigned", "not_negative_to_unsigned"} ->
            {Verdict(is_signed(From) /\ is_unsigned(To) /\ value.n < 0)}
      [] name = "le_max" ->
            {Verdict(~Le(value, static_cast_float(From, numeric_limits_max(To))))}
      [] name = "ge_lowest" ->
            {Verdict(~Ge(value, static_cast_float(From, numeric_limits_lowest(To))))}
      [] name = "round_trip" ->
            {Verdict(~Eq(value, static_cast_float(From, r))) : r \in static_cast(To, value)}
      [] name = "le_max_widened" ->
            {Verdict(~Le(Widened(value), Widened(numeric_limits_max(To))))}
      [] name = "ge_lowest_widened" ->
            {Verdict(~Ge(Widened(value), Widened(numeric_limits_lowest(To))))}

(* The message a failed check of validate writes into its stream. *)
FailureMessage(name, To, From, value) ==
    CASE name = "nan" -> Message(NaNText, <<>>)
      [] name = "inf" -> Message(InfText, <<>>)
      [] name = "negative_to_unsigned" -> Message(NegText, <<Insert(From, value)>>)
      [] name \in {"above_max", "above_max_widened"} ->
            ExceedsMaximum(To, From, value, DefaultLocator).exc.message
      [] name \in {"below_lowest", "below_lowest_widened"} ->
            BelowMinimum(To, From, value, DefaultLocator).exc.message

(* The checks the build runs for a call. *)
PathChecks(c) ==
    IF c.op \in {"char_cast", "CHAR_CAST"} THEN <<>>
    ELSE IF build.cpp14 THEN Checks14(c.to, c.from)
    ELSE IF build.validation THEN Checks11(c.to, c.from)
    ELSE <<>>

(* The calls the threads make. *)
SiteLocator ==
    [file |-> "test_ncast_core.cpp", line |-> MaxLine, function |-> "MacroExceptionInfo"]

ThreadCalls ==
    {Call("numeric_cast", "uchar", "schar", IntV(-1), DefaultLocator),
     Call("numeric_cast", "schar", "uchar", IntV(IntMax("uchar")), DefaultLocator),
     Call("NUMERIC_CAST", "schar", "int", IntV(IntMin("int")), SiteLocator),
     Call("numeric_cast", "float", "int", IntV(IntMax("int")), DefaultLocator),
     Call("numeric_cast", "int", "float", Fin(FALSE, Unit \div 2), DefaultLocator),
     Call("numeric_cast", "int", "float", Fin(FALSE, 2 ^ (IntBits - 1) * Unit),
          DefaultLocator),
     Call("numeric_cast", "int", "float", NaN, DefaultLocator),
     Call("numeric_cast", "float", "double", Fin(FALSE, FmtMax(DoubleFormat)),
          DefaultLocator),
     Call("numeric_cast", "float", "double", Inf(TRUE), DefaultLocator),
     Call("char_cast", "uchar", "schar", IntV(-1), DefaultLocator),
     Call("CHAR_CAST", "schar", "uchar", IntV(IntMax("uchar")), SiteLocator)}

(* The std::ostringstream a call on thread t builds its message in: a     *)
(* local variable of validate, one per call.  ss_static is the stream     *)
(* declared static, one for all calls.                                    *)
ss_static(t) == 1

ss(t) == t

(* The call is entered; its arguments are passed by value. *)
invoke(t) ==
    /\ threads[t].pc = "idle"
    /\ \E c \in ThreadCalls :
         threads' = [threads EXCEPT ![t] =
             [IdleThread EXCEPT !.call = c, !.checks = PathChecks(c),
                                !.pc = IF PathChecks(c) = <<>> THEN "converting"
                                       ELSE "checking"]]
    /\ UNCHANGED <<build, call, result, inner, exc_vars, streams>>

(* The next check is evaluated. *)
check(t) ==
    LET th == threads[t]
        name == th.checks[th.next]
        conv == th.converted \/ name = "round_trip"
    IN  /\ th.pc = "checking"
        /\ \E r \in CheckResult(name, th.call.to, th.call.from, th.call.value) :
             threads' = [threads EXCEPT ![t] =
                 CASE r = "pass" ->
                        [th EXCEPT !.next = @ + 1, !.converted = conv,
                                   !.pc = IF th.next = Len(th.checks) THEN "converting"
                                          ELSE "checking"]
                   [] r = "accept" -> [th EXCEPT !.pc = "converting"]
                   [] r = "fail" ->
                        [th EXCEPT !.failed = th.next, !.converted = conv,
                                   !.pc = IF ~build.cpp14 THEN "writing"
                                          ELSE IF build.validation THEN "throwing"
                                          ELSE "converting"]]
        /\ UNCHANGED <<build, call, result, inner, exc_vars, streams>>

(* std::ostringstream ss; ss << ...: the message of the failed check. *)
write_message(t) ==
    LET th == threads[t]
    IN  /\ th.pc = "writing"
        /\ streams' = [streams EXCEPT ![ss(t)] =
               FailureMessage(th.checks[th.failed], th.call.to, th.call.from,
                              th.call.value)]
        /\ threads' = [threads EXCEPT ![t].pc = "throwing"]
        /\ UNCHANGED <<build, call, result, inner, exc_vars>>

(* throw cast_exception(..., file, line, function) *)
throw_exception(t) ==
    LET th == threads[t]
        message == IF build.cpp14 THEN Message(RangeText, <<>>) ELSE streams[ss(t)]
    IN  /\ th.pc = "throwing"
        /\ threads' = [threads EXCEPT ![t].pc = "done",
               ![t].outcome = Throws(cast_exception(message, th.call.loc.file,
                                                    th.call.loc.line,
                                                    th.call.loc.function))]
        /\ UNCHANGED <<build, call, result, inner, exc_vars, streams>>

(* return static_cast<ToType>(value) *)
return_cast(t) ==
    LET th == threads[t]
    IN  /\ th.pc = "converting"
        /\ \E r \in static_cast(th.call.to, th.call.value) :
             threads' = [threads EXCEPT ![t].pc = "done", ![t].converted = TRUE,
                                        ![t].outcome = Returns(r)]
        /\ UNCHANGED <<build, call, result, inner, exc_vars, streams>>

NextThreads ==
    \E t \in Threads :
        \/ invoke(t)
        \/ check(t)
        \/ write_message(t)
        \/ throw_exception(t)
        \/ return_cast(t)

SpecThreads == Init /\ [][NextThreads]_vars

(* The outcomes of a call that runs alone. *)
Alone(c) ==
    IF c.op \in {"char_cast", "CHAR_CAST"}
    THEN char_cast_impl(c.to, c.from, c.value, c.loc)
    ELSE numeric_cast_enhanced(c.to, c.from, c.value, c.loc)

(* C22: calls are independent and stateless.  Under every interleaving of *)
(* the steps of calls made concurrently by several threads, each finished *)
(* call has an outcome (success and value, or failure with its message    *)
(* and locator) that the same call yields when run alone, which depends   *)
(* only on the source type, target type, value and supplied locator.      *)
C22_CallsIndependent ==
    \A t \in Threads :
        threads[t].pc = "done" => threads[t].outcome \in Alone(threads[t].call)

C22_Witness ==
    /\ ~build.cpp14 /\ build.validation
    /\ threads[1].pc = "done" /\ ~threads[1].outcome.ok
    /\ threads[1].outcome.exc.message.text = NegText
    /\ threads[2].pc = "throwing" /\ streams[2].text = MinText
    /\ threads[2].call.op = "NUMERIC_CAST"

(* C30: every call terminates with exactly one outcome, a returned value  *)
(* of the target type or a thrown cast_exception, never both and never    *)
(* neither; with validation enabled the conversion static_cast<T>(v) is   *)
(* executed only once every check of the strategy has passed, and a       *)
(* failure is raised at the first violated check, after which the call    *)
(* evaluates nothing more and does not convert.                           *)
C30_OneOutcomeChecksFirst ==
    \A t \in Threads :
        LET th == threads[t]
        IN  /\ th.pc = "done" =>
                  IF th.outcome.ok
                  THEN th.outcome.val # NoVal /\ th.outcome.exc = NoExc
                  ELSE th.outcome.val = NoVal /\ th.outcome.exc # NoExc
            /\ th.pc # "done" => th.outcome = Returns(NoVal)
            /\ th.next <= Len(th.checks) + 1
            /\ (build.validation /\ th.converted) =>
                  th.failed = 0 /\ th.pc \in {"converting", "done"}
            /\ (build.validation /\ th.failed # 0) =>
                  /\ th.pc \in {"writing", "throwing", "done"}
                  /\ th.pc = "done" => ~th.outcome.ok

====
